---- MODULE Spec2Model ----
(***************************************************************************)
(* Barnswallow Invitational (src/streamlit_app.py): the snake draft, the   *)
(* draft board kept in the "Draft" worksheet, the scoring of a show, the   *)
(* "Scores" worksheet and the standings.                                   *)
(*                                                                         *)
(* A Python string is a sequence of one-character strings, so strip(),     *)
(* lower(), split() and the f-strings are computed, character by           *)
(* character.  A worksheet is a sequence of rows, a row a sequence of      *)
(* cells, the empty cell the empty string <<>>.                            *)
(***************************************************************************)
EXTENDS Integers, Sequences, FiniteSets, TLC

VARIABLES
    order,        \* initial_order: the players of the "Draft Order" worksheet
    draft_ws,     \* the "Draft" worksheet: header row, then one row per player
    cache,        \* st.cache_data of get_draft_df: <<>> or <<the cached frame>>
    sess,         \* per browser session: the script run in progress
    scores_ws,    \* the "Scores" worksheet: <<>> while it does not exist, else <<rows>>
    shows,        \* what Phish.in answers for each show date
    out,          \* what the last Calculate Scores click computed and displayed
    songs,        \* full_catalog_df["Song"]: the cached result of fetch_catalog()
    log,          \* the write_pick calls that returned True, in order of return
    clicks,       \* write_pick calls and Calculate Scores clicks so far
    total_picks,  \* the argument of the next next_pick_player call of the order study
    turns         \* the results of the next_pick_player calls of the order study

vars == <<order, draft_ws, cache, sess, scores_ws, shows, out, songs, log, clicks,
          total_picks, turns>>

(***************************************************************************)
(* Python strings                                                          *)
(***************************************************************************)
UpperChars == <<"A","B","C","D","E","F","G","H","I","J","K","L","M",
                "N","O","P","Q","R","S","T","U","V","W","X","Y","Z">>
LowerChars == <<"a","b","c","d","e","f","g","h","i","j","k","l","m",
                "n","o","p","q","r","s","t","u","v","w","x","y","z">>

\* str.lower() on one character
lower_char(c) ==
    IF \E i \in 1..Len(UpperChars) : UpperChars[i] = c
    THEN LowerChars[CHOOSE i \in 1..Len(UpperChars) : UpperChars[i] = c]
    ELSE c

RECURSIVE lower(_)
\* str.lower()
lower(s) == IF s = <<>> THEN <<>> ELSE <<lower_char(Head(s))>> \o lower(Tail(s))

\* the characters str.strip() removes
IsSpace(c) == c \in {" ", "\t", "\n"}

RECURSIVE lstrip(_)
lstrip(s) == IF s # <<>> /\ IsSpace(Head(s)) THEN lstrip(Tail(s)) ELSE s

RECURSIVE rstrip(_)
rstrip(s) ==
    IF s # <<>> /\ IsSpace(s[Len(s)]) THEN rstrip(SubSeq(s, 1, Len(s) - 1)) ELSE s

\* str.strip()
strip(s) == rstrip(lstrip(s))

\* s.startswith(p)
startswith(s, p) == Len(p) <= Len(s) /\ SubSeq(s, 1, Len(p)) = p

RECURSIVE split_first(_, _)
\* s.split(sep)[0]: the text before the first occurrence of sep, all of s if none
split_first(s, sep) ==
    IF s = <<>> \/ startswith(s, sep) THEN <<>>
    ELSE <<Head(s)>> \o split_first(Tail(s), sep)

DigitChars == <<"0","1","2","3","4","5","6","7","8","9">>

RECURSIVE str_int(_)
\* str(n) of an integer n >= 0, as an f-string prints it
str_int(n) ==
    IF n < 10 THEN <<DigitChars[n + 1]>>
    ELSE str_int(n \div 10) \o <<DigitChars[(n % 10) + 1]>>

RECURSIVE zero_pad(_, _)
\* the zero padding of strftime's %m and %d (and %Y)
zero_pad(s, width) == IF Len(s) >= width THEN s ELSE zero_pad(<<"0">> \o s, width)

RECURSIVE SumSeq(_)
SumSeq(s) == IF s = <<>> THEN 0 ELSE Head(s) + SumSeq(Tail(s))

Range(s) == {s[i] : i \in DOMAIN s}

(***************************************************************************)
(* Constants and configuration                                             *)
(***************************************************************************)
ALIAS_MAP ==
    ( <<"2","0","0","1">>
        :> <<"a","l","s","o"," ","s","p","r","a","c","h"," ","z","a","r","a","t","h","u","s","t","r","a">>
   @@ <<"y","e","m">>
        :> <<"y","o","u"," ","e","n","j","o","y"," ","m","y","s","e","l","f">> )

\* ALIAS_MAP.get(k, k)
alias_get(k) == IF k \in DOMAIN ALIAS_MAP THEN ALIAS_MAP[k] ELSE k

\* range(1, 13): the pick columns of the header row
LastPickColumn == 12

HEADER_ROW ==
    <<<<"P","l","a","y","e","r">>>>
    \o [i \in 1..LastPickColumn |-> <<"P","i","c","k"," ">> \o str_int(i)]

(***************************************************************************)
(* Draft order engine                                                      *)
(***************************************************************************)
NA == <<"N","/","A">>

\* math.ceil(a / b) for integers a >= 0, b > 0
ceil_div(a, b) == (a + b - 1) \div b

\* the round taken as pick_number // n + 1: the last pick of a round falls into the next
player_index_floor(n, pick_number) ==
    LET round_number      == (pick_number \div n) + 1
        position_in_round == (pick_number - 1) % n
    IN IF round_number % 2 = 0 THEN n - 1 - position_in_round + 1
                               ELSE position_in_round + 1

\* the snake-draft index of pick_number among n players (1-based, as TLA+ indexes)
player_index(n, pick_number) ==
    LET round_number      == ceil_div(pick_number, n)
        position_in_round == (pick_number - 1) % n
    IN IF round_number % 2 = 0 THEN n - 1 - position_in_round + 1
                               ELSE position_in_round + 1

\* next_pick_player(order, total_picks) -> <<player, pick_number>>
next_pick_player(ord, picks) ==
    LET n == Len(ord)
    IN IF n = 0 THEN <<NA, 0>>
       ELSE <<ord[player_index(n, picks + 1)], picks + 1>>

(***************************************************************************)
(* Python dicts: functions with a finite domain, {} the empty function     *)
(***************************************************************************)
EmptyDict == <<>>

\* d.get(k, default)
dict_get(d, k, default) == IF k \in DOMAIN d THEN d[k] ELSE default

\* d[k] = v
dict_set(d, k, v) == [x \in (DOMAIN d) \cup {k} |-> IF x = k THEN v ELSE d[x]]

(***************************************************************************)
(* Scoring a show                                                          *)
(*                                                                         *)
(* A track is [title, duration, tags]: duration in milliseconds (0 when    *)
(* the key is missing), tags a sequence of [name, notes] (notes <<>> when  *)
(* missing or empty).  An event is [key, points, label].                   *)
(***************************************************************************)
MsPerMinute == 60000

\* round(duration_ms / 60000): Python 3 rounds halves to the even integer
duration_min(duration_ms) ==
    LET q == duration_ms \div MsPerMinute
        r == duration_ms % MsPerMinute
    IN IF 2 * r < MsPerMinute THEN q
       ELSE IF 2 * r > MsPerMinute THEN q + 1
       ELSE IF q % 2 = 0 THEN q ELSE q + 1

\* played_title = track["title"].strip()
played_title(track) == strip(track.title)

\* played_key = ALIAS_MAP.get(played_title.lower(), played_title.lower())
played_key(track) == alias_get(lower(played_title(track)))

\* the points of the first play of a song in the show
play_points(track) ==
    LET dm == duration_min(track.duration)
    IN IF 20 <= dm /\ dm < 30 THEN 4 + 2
       ELSE IF dm >= 30 THEN 4 + 3
       ELSE 4

\* f"{played_title} ({duration_min} min)"
play_label(track) ==
    played_title(track) \o <<" ", "(">> \o str_int(duration_min(track.duration))
        \o <<" ", "m", "i", "n", ")">>

\* f"{played_title} (Reprise #{reprise_count})"
reprise_label(track, reprise_count) ==
    played_title(track) \o <<" ", "(", "R", "e", "p", "r", "i", "s", "e", " ", "#">>
        \o str_int(reprise_count) \o <<")">>

TEASE == <<"t", "e", "a", "s", "e">>
BY_SEP == <<" ", "b", "y", " ">>

\* the tag name compared without lower(): "Tease" is missed
is_tease_exact(tag) == tag.name = TEASE /\ tag.notes # <<>>

\* tag.get("name", "").lower() == "tease" and tag.get("notes")
is_tease(tag) == lower(tag.name) = TEASE /\ tag.notes # <<>>

\* teased_title = tag["notes"].strip().split(" by ")[0].strip()
teased_title(tag) == strip(split_first(strip(tag.notes), BY_SEP))

\* teased_key = ALIAS_MAP.get(teased_title.lower(), teased_title.lower())
teased_key(tag) == alias_get(lower(teased_title(tag)))

\* f"{teased_title} (Tease in {played_title})"
tease_label(tag, track) ==
    teased_title(tag) \o <<" ", "(", "T", "e", "a", "s", "e", " ", "i", "n", " ">>
        \o played_title(track) \o <<")">>

\* the event a tag of a track adds, as a sequence of zero or one events
tag_events(tag, track) ==
    IF is_tease(tag)
    THEN <<[key |-> teased_key(tag), points |-> 1, label |-> tease_label(tag, track)]>>
    ELSE <<>>

RECURSIVE tease_events(_, _)
\* for tag in track.get("tags", []): ...
tease_events(tags, track) ==
    IF tags = <<>> THEN <<>>
    ELSE tag_events(Head(tags), track) \o tease_events(Tail(tags), track)

\* the Play event of a track whose song was not played before in the show
play_event(track) ==
    [key |-> played_key(track), points |-> play_points(track), label |-> play_label(track)]

\* the Reprise event of a track whose song was played before in the show
reprise_event(track, reprise_count) ==
    [key |-> played_key(track), points |-> 2, label |-> reprise_label(track, reprise_count)]

RECURSIVE walk_tracks(_, _, _, _)
\* Step 1 of score_show: the loop over the tracks, with its three accumulators
walk_tracks(tracks, point_events, songs_played_this_show, reprise_counters) ==
    IF tracks = <<>> THEN point_events
    ELSE LET track == Head(tracks)
             k     == played_key(track)
             n     == dict_get(reprise_counters, k, 0) + 1
         IN IF k \notin songs_played_this_show
            THEN walk_tracks(Tail(tracks),
                     point_events \o <<play_event(track)>>
                         \o tease_events(track.tags, track),
                     songs_played_this_show \cup {k},
                     reprise_counters)
            ELSE walk_tracks(Tail(tracks),
                     point_events \o <<reprise_event(track, n)>>
                         \o tease_events(track.tags, track),
                     songs_played_this_show,
                     dict_set(reprise_counters, k, n))

\* the point events of a show
point_events_of(tracks) == walk_tracks(tracks, <<>>, {}, EmptyDict)

\* pick_key = ALIAS_MAP.get(pick.lower(), pick.lower())
pick_key(pick) == alias_get(lower(pick))

\* isinstance(pick, str) and pick.strip()
is_pick(pick) == strip(pick) # <<>>

\* the breakdown line set to the event's points instead of added to: a label that
\* recurs keeps the points of its last event only
tally_event_overwrite(tally, player_name, pick, event) ==
    IF event.key = pick_key(pick)
    THEN [totals    |-> dict_set(tally.totals, player_name,
                                 tally.totals[player_name] + event.points),
          breakdown |-> dict_set(tally.breakdown, player_name,
                                 dict_set(tally.breakdown[player_name], event.label,
                                          event.points))]
    ELSE tally

\* a tally is [totals, breakdown]; one event matched against one pick of a player
tally_event(tally, player_name, pick, event) ==
    IF event.key = pick_key(pick)
    THEN [totals    |-> dict_set(tally.totals, player_name,
                                 tally.totals[player_name] + event.points),
          breakdown |-> dict_set(tally.breakdown, player_name,
                                 dict_set(tally.breakdown[player_name], event.label,
                                          dict_get(tally.breakdown[player_name], event.label, 0)
                                              + event.points))]
    ELSE tally

RECURSIVE tally_pick(_, _, _, _)
\* for event in point_events: ...
tally_pick(tally, player_name, pick, events) ==
    IF events = <<>> THEN tally
    ELSE tally_pick(tally_event(tally, player_name, pick, Head(events)),
                    player_name, pick, Tail(events))

RECURSIVE tally_row(_, _, _, _)
\* for pick in row[1:]: ...
tally_row(tally, player_name, picks, events) ==
    IF picks = <<>> THEN tally
    ELSE tally_row(IF is_pick(Head(picks))
                   THEN tally_pick(tally, player_name, Head(picks), events)
                   ELSE tally,
                   player_name, Tail(picks), events)

RECURSIVE tally_board(_, _, _)
\* for _, row in draft_board.iterrows(): ...
tally_board(tally, rows, events) ==
    IF rows = <<>> THEN tally
    ELSE tally_board(tally_row(tally, Head(Head(rows)), Tail(Head(rows)), events),
                     Tail(rows), events)

\* {p: 0 for p in draft_board["Player"]} and {p: {} for p in draft_board["Player"]}
zero_tally(draft_board) ==
    [totals    |-> [p \in {draft_board[i][1] : i \in DOMAIN draft_board} |-> 0],
     breakdown |-> [p \in {draft_board[i][1] : i \in DOMAIN draft_board} |-> EmptyDict]]

\* what score_show returns when it has nothing to score: ({}, {})
EmptyResult == [breakdown |-> EmptyDict, totals |-> EmptyDict]

\* not isinstance(payload, dict) or not payload.get("tracks")
no_setlist(payload) == payload.kind # "dict" \/ payload.tracks = <<>>

\* a show without setlist scored as a show in which nobody scored: zero totals
score_show_zeroes(response, draft_board) ==
    IF response.error THEN EmptyResult
    ELSE LET t == tally_board(zero_tally(draft_board), draft_board,
                              point_events_of(response.payload.tracks))
         IN [breakdown |-> t.breakdown, totals |-> t.totals]

\* score_show(show_date, draft_board, return_breakdown=True); response is what
\* requests.get gave: [error |-> TRUE] for a RequestException, else the payload
score_show(response, draft_board) ==
    IF response.error THEN EmptyResult
    ELSE IF no_setlist(response.payload) THEN EmptyResult
    ELSE LET t == tally_board(zero_tally(draft_board), draft_board,
                              point_events_of(response.payload.tracks))
         IN [breakdown |-> t.breakdown, totals |-> t.totals]

(***************************************************************************)
(* gspread worksheets                                                      *)
(***************************************************************************)
EmptyCell == <<>>

RECURSIVE trim_row(_)
\* gspread drops the trailing empty cells of a row
trim_row(row) ==
    IF row # <<>> /\ row[Len(row)] = EmptyCell THEN trim_row(SubSeq(row, 1, Len(row) - 1))
    ELSE row

RECURSIVE pad_row(_, _)
pad_row(row, width) == IF Len(row) >= width THEN row ELSE pad_row(Append(row, EmptyCell), width)

\* ws.find(value): the row of the first cell holding value, 0 when there is none
\* (gspread.exceptions.CellNotFound)
ws_find(ws, value) ==
    LET hits == {i \in DOMAIN ws : \E j \in DOMAIN ws[i] : ws[i][j] = value}
    IN IF hits = {} THEN 0 ELSE CHOOSE i \in hits : \A k \in hits : i <= k

\* ws.row_values(row_num)
row_values(ws, row_num) == trim_row(ws[row_num])

\* ws.update_cell(row_num, col_num, value)
update_cell(ws, row_num, col_num, value) ==
    [ws EXCEPT ![row_num] = [pad_row(@, col_num) EXCEPT ![col_num] = value]]

\* ws.get_all_values(): every row, padded to the width of the widest
get_all_values(ws) ==
    LET width == CHOOSE w \in {Len(ws[i]) : i \in DOMAIN ws} :
                     \A i \in DOMAIN ws : Len(ws[i]) <= w
    IN [i \in DOMAIN ws |-> pad_row(ws[i], width)]

\* the frame get_draft_df builds from the worksheet: the rows under the header
read_draft_df(ws) ==
    LET vals == get_all_values(ws)
    IN IF Len(vals) <= 1 THEN <<>> ELSE Tail(vals)

\* the non-empty cells of every column counted, the Player column included
count_picks_all_columns(draft_df) ==
    SumSeq([i \in DOMAIN draft_df |->
               Cardinality({j \in 1..Len(draft_df[i]) : draft_df[i][j] # EmptyCell})])

\* sum(draft_df.iloc[:, 1:].ne("").sum())
count_picks(draft_df) ==
    SumSeq([i \in DOMAIN draft_df |->
               Cardinality({j \in 2..Len(draft_df[i]) : draft_df[i][j] # EmptyCell})])

(***************************************************************************)
(* The catalog and the songs still available                               *)
(***************************************************************************)
\* ASCII order of the characters the titles use
CharOrder == <<" ", "#", "(", ")", "/">> \o DigitChars \o UpperChars \o LowerChars

ord(c) == CHOOSE i \in DOMAIN CharOrder : CharOrder[i] = c

RECURSIVE str_less(_, _)
\* a < b on Python strings
str_less(a, b) ==
    IF b = <<>> THEN FALSE
    ELSE IF a = <<>> THEN TRUE
    ELSE IF Head(a) = Head(b) THEN str_less(Tail(a), Tail(b))
    ELSE ord(Head(a)) < ord(Head(b))

RECURSIVE insert_sorted(_, _)
insert_sorted(sorted, x) ==
    IF sorted = <<>> THEN <<x>>
    ELSE IF str_less(x, Head(sorted)) THEN <<x>> \o sorted
    ELSE <<Head(sorted)>> \o insert_sorted(Tail(sorted), x)

RECURSIVE sort_values(_)
\* DataFrame.sort_values("Song")
sort_values(titles) ==
    IF titles = <<>> THEN <<>>
    ELSE insert_sorted(sort_values(SubSeq(titles, 1, Len(titles) - 1)), titles[Len(titles)])

\* song.strip().lower() in ALIAS_MAP: fetch_catalog skips the song
is_alias(song) == lower(strip(song)) \in DOMAIN ALIAS_MAP

\* fetch_catalog(): the "Song" column
fetch_catalog(data) == sort_values(SelectSeq(data, LAMBDA song : ~is_alias(song)))

\* ALIAS_MAP.get(s.strip().lower(), s.strip().lower()), as write_pick and the
\* catalog's 'normalized' column compute it
normalized(song) == alias_get(lower(strip(song)))

\* drafted_songs_set: every non-blank pick cell of the frame, stripped and lowered
drafted_songs_set(draft_df) ==
    UNION {{lower(strip(draft_df[i][j])) : j \in 2..Len(draft_df[i])} :
              i \in DOMAIN draft_df} \ {<<>>}

\* available_songs_df["Song"]: the options of the "Pick a song:" select box
available_songs(draft_df, catalog) ==
    SelectSeq(catalog, LAMBDA song : normalized(song) \notin drafted_songs_set(draft_df))

(***************************************************************************)
(* The players, the sessions and the bounds of the draft study             *)
(***************************************************************************)
Ann == <<"A", "n", "n">>
Bob == <<"B", "o", "b">>
\* Cat is in the draft order and has no row on the draft board
Cat == <<"C", "a", "t">>

Sessions == {1, 2}

\* the write_pick calls a behaviour of Spec makes
MaxClicks == 3

\* the board as the spreadsheet's owner sets it up: the header and a row per
\* player; no player's name is a header cell or a song, so find() meets a name
\* in the Player column only
EmptyBoard == <<HEADER_ROW, <<Ann>>, <<Bob>>>>

\* the locals of a script run that has not started
IdleRun ==
    [pc |-> "idle", draft_df |-> <<>>, player |-> <<>>, song |-> <<>>,
     row_num |-> 0, col_num |-> 0, ret |-> "none"]

\* get_draft_df(): the cached frame while there is one, else the worksheet's
get_draft_df == IF cache # <<>> THEN cache[1] ELSE read_draft_df(draft_ws)

\* pick_on of a script run: next_pick_player(initial_order, total_picks)
pick_on(draft_df) == next_pick_player(order, count_picks(draft_df))[1]

\* the slot test off by one: it lets a pick into the column after "Pick 12"
no_slots_left_late(col_num) == col_num > Len(HEADER_ROW) + 1

\* col_num > len(HEADER_ROW): no slots left
no_slots_left(col_num) == col_num > Len(HEADER_ROW)

\* write_pick writing the cell before it tests the slot
write_pick_writes_first(ws, player, song) ==
    LET normalized_song == normalized(song)
        row_num         == ws_find(ws, player)
        col_num         == Len(row_values(ws, row_num)) + 1
    IN IF row_num = 0
       THEN [ws |-> ws, ret |-> "false", row_num |-> 0, col_num |-> 0]
       ELSE [ws      |-> update_cell(ws, row_num, col_num, normalized_song),
             ret     |-> IF no_slots_left(col_num) THEN "false" ELSE "true",
             row_num |-> row_num, col_num |-> col_num]

\* write_pick(player, song) called while no other script run is under way: the
\* worksheet it leaves, what it returns, and the row and column it computed
write_pick(ws, player, song) ==
    LET normalized_song == normalized(song)
        row_num         == ws_find(ws, player)
        col_num         == Len(row_values(ws, row_num)) + 1
    IN IF row_num = 0
       THEN [ws |-> ws, ret |-> "false", row_num |-> 0, col_num |-> 0]
       ELSE IF no_slots_left(col_num)
       THEN [ws |-> ws, ret |-> "false", row_num |-> row_num, col_num |-> col_num]
       ELSE [ws      |-> update_cell(ws, row_num, col_num, normalized_song),
             ret     |-> "true",
             row_num |-> row_num, col_num |-> col_num]

(***************************************************************************)
(* The draft tab                                                           *)
(***************************************************************************)
\* A script run starts: the initial data load (draft_df, total_picks, pick_on)
LoadData(s) ==
    /\ sess[s].pc = "idle"
    /\ sess' = [sess EXCEPT ![s] = [IdleRun EXCEPT !.pc = "run", !.draft_df = get_draft_df]]
    /\ cache' = <<get_draft_df>>
    /\ UNCHANGED <<order, draft_ws, scores_ws, shows, out, songs, log, clicks,
                   total_picks, turns>>

\* "Draft This Song" pressed in the run of session s, with the player and the
\* option (an index into the select box, 0 when it has no option) chosen
DraftThisSong(s, player, option, limit) ==
    LET options == available_songs(sess[s].draft_df, songs)
    IN /\ sess[s].pc = "run"
       /\ clicks < limit
       /\ IF player # pick_on(sess[s].draft_df)
          THEN \* st.warning: it's not your turn
               /\ sess' = [sess EXCEPT ![s] = [IdleRun EXCEPT !.player = player]]
               /\ clicks' = clicks
          ELSE IF option = 0
          THEN \* choice is None: write_pick raises at song.strip()
               /\ sess' = [sess EXCEPT ![s] = [IdleRun EXCEPT !.player = player,
                                                              !.ret = "raised"]]
               /\ clicks' = clicks + 1
          ELSE /\ sess' = [sess EXCEPT ![s].pc = "find", ![s].player = player,
                                       ![s].song = normalized(options[option])]
               /\ clicks' = clicks + 1
       /\ UNCHANGED <<order, draft_ws, cache, scores_ws, shows, out, songs, log,
                      total_picks, turns>>

\* the options a user can have selected: any of the select box, 0 when it is empty
Options(s) ==
    LET n == Len(available_songs(sess[s].draft_df, songs))
    IN IF n = 0 THEN {0} ELSE 1..n

\* the option the select box shows by default: the first
DefaultOption(s) == IF Len(available_songs(sess[s].draft_df, songs)) = 0 THEN 0 ELSE 1

\* write_pick: cell = draft_ws.find(player); row_num = cell.row
FindPlayer(s) ==
    /\ sess[s].pc = "find"
    /\ LET r == ws_find(draft_ws, sess[s].player)
       IN IF r = 0
          THEN sess' = [sess EXCEPT ![s].pc = "idle", ![s].ret = "false"]
          ELSE sess' = [sess EXCEPT ![s].pc = "row_values", ![s].row_num = r]
    /\ UNCHANGED <<order, draft_ws, cache, scores_ws, shows, out, songs, log, clicks,
                   total_picks, turns>>

\* write_pick: row_values = draft_ws.row_values(row_num); col_num; the slot test
RowValues(s) ==
    /\ sess[s].pc = "row_values"
    /\ LET col == Len(row_values(draft_ws, sess[s].row_num)) + 1
       IN IF no_slots_left(col)
          THEN sess' = [sess EXCEPT ![s].pc = "idle", ![s].col_num = col,
                                    ![s].ret = "false"]
          ELSE sess' = [sess EXCEPT ![s].pc = "update_cell", ![s].col_num = col]
    /\ UNCHANGED <<order, draft_ws, cache, scores_ws, shows, out, songs, log, clicks,
                   total_picks, turns>>

\* write_pick: draft_ws.update_cell(row_num, col_num, normalized_song)
UpdateCell(s) ==
    /\ sess[s].pc = "update_cell"
    /\ draft_ws' = update_cell(draft_ws, sess[s].row_num, sess[s].col_num, sess[s].song)
    /\ sess' = [sess EXCEPT ![s].pc = "clear"]
    /\ UNCHANGED <<order, cache, scores_ws, shows, out, songs, log, clicks,
                   total_picks, turns>>

\* write_pick: get_draft_df.clear(); return True
ClearCache(s) ==
    /\ sess[s].pc = "clear"
    /\ cache' = <<>>
    /\ sess' = [sess EXCEPT ![s].pc = "idle", ![s].ret = "true"]
    /\ log' = Append(log, [session |-> s, player |-> sess[s].player, song |-> sess[s].song,
                           row_num |-> sess[s].row_num, col_num |-> sess[s].col_num])
    /\ UNCHANGED <<order, draft_ws, scores_ws, shows, out, songs, clicks,
                   total_picks, turns>>

\* the 60 seconds of the draft board's cache pass
CacheExpires ==
    /\ cache # <<>>
    /\ cache' = <<>>
    /\ UNCHANGED <<order, draft_ws, sess, scores_ws, shows, out, songs, log, clicks,
                   total_picks, turns>>

\* what Phish.net lists in the draft study
FewSongs == << <<"R", "e", "b", "a">>, <<" ", "F", "e", "e">>, <<"Y", "E", "M">> >>

NoScoresWs == [exists |-> FALSE, rows |-> <<>>]

Init ==
    /\ order \in {<<Ann, Bob>>, <<Ann, Bob, Cat>>}
    /\ draft_ws = EmptyBoard
    /\ cache = <<>>
    /\ sess = [s \in Sessions |-> IdleRun]
    /\ scores_ws = NoScoresWs
    /\ shows = <<>>
    /\ out = <<>>
    /\ songs = fetch_catalog(FewSongs)
    /\ log = <<>>
    /\ clicks = 0
    /\ total_picks = 0
    /\ turns = <<>>

Next ==
    \/ \E s \in Sessions : LoadData(s)
    \/ \E s \in Sessions : \E player \in Range(order) : \E option \in Options(s) :
           DraftThisSong(s, player, option, MaxClicks)
    \/ \E s \in Sessions : FindPlayer(s)
    \/ \E s \in Sessions : RowValues(s)
    \/ \E s \in Sessions : UpdateCell(s)
    \/ \E s \in Sessions : ClearCache(s)
    \/ CacheExpires

Spec == Init /\ [][Next]_vars

(***************************************************************************)
(* The end of the draft: the board after the first picks were made one     *)
(* after the other, each user taking the select box's first option         *)
(***************************************************************************)
\* the picks of a full board of two players
FullBoardPicks == 2 * LastPickColumn

\* the write_pick calls a behaviour of SpecDraftEnd makes
EndClicks == MaxClicks + 1

\* Phish.net lists "S01", "S02", ...: a song for every call
ManySongs == [i \in 1..FullBoardPicks + EndClicks |-> <<"S">> \o zero_pad(str_int(i), 2)]

RECURSIVE board_after(_, _)
\* the worksheet after k draft clicks run to their end one at a time, each by the
\* player on the clock with the first option of the select box
board_after(players, k) ==
    IF k = 0 THEN EmptyBoard
    ELSE LET ws      == board_after(players, k - 1)
             df      == read_draft_df(ws)
             player  == next_pick_player(players, count_picks(df))[1]
             choice  == available_songs(df, fetch_catalog(ManySongs))[1]
             row_num == ws_find(ws, player)
         IN update_cell(ws, row_num, Len(row_values(ws, row_num)) + 1, normalized(choice))

InitDraftEnd ==
    /\ order = <<Ann, Bob>>
    /\ draft_ws = board_after(order, FullBoardPicks - 2)
    /\ cache = <<>>
    /\ sess = [s \in Sessions |-> IdleRun]
    /\ scores_ws = NoScoresWs
    /\ shows = <<>>
    /\ out = <<>>
    /\ songs = fetch_catalog(ManySongs)
    /\ log = <<>>
    /\ clicks = 0
    /\ total_picks = 0
    /\ turns = <<>>

NextDraftEnd ==
    \/ \E s \in Sessions : LoadData(s)
    \/ \E s \in Sessions : \E player \in Range(order) :
           DraftThisSong(s, player, DefaultOption(s), EndClicks)
    \/ \E s \in Sessions : FindPlayer(s)
    \/ \E s \in Sessions : RowValues(s)
    \/ \E s \in Sessions : UpdateCell(s)
    \/ \E s \in Sessions : ClearCache(s)
    \/ CacheExpires

SpecDraftEnd == InitDraftEnd /\ [][NextDraftEnd]_vars

(***************************************************************************)
(* The last two rounds of the draft, the script runs of two sessions        *)
(* overlapping                                                             *)
(***************************************************************************)
InitDraftRace ==
    /\ order = <<Ann, Bob>>
    /\ draft_ws = board_after(order, FullBoardPicks - 4)
    /\ cache = <<>>
    /\ sess = [s \in Sessions |-> IdleRun]
    /\ scores_ws = NoScoresWs
    /\ shows = <<>>
    /\ out = <<>>
    /\ songs = fetch_catalog(ManySongs)
    /\ log = <<>>
    /\ clicks = 0
    /\ total_picks = 0
    /\ turns = <<>>

SpecDraftRace == InitDraftRace /\ [][NextDraftEnd]_vars

(***************************************************************************)
(* The draft, one user at a time: every script run ends before the next    *)
(* starts, so each run loads the board as the last one left it             *)
(***************************************************************************)
\* the write_pick calls a behaviour of SpecTurns makes: a full board, and more
TurnClicks == FullBoardPicks + MaxClicks

\* the browser session the users of SpecTurns share
TurnSession == 1

\* A whole script run in which "Draft This Song" is pressed for player, the
\* select box on its first option
DraftClick(player, limit) ==
    LET draft_df == get_draft_df
        options  == available_songs(draft_df, songs)
        pick     == write_pick(draft_ws, player, options[1])
    IN /\ \A s \in Sessions : sess[s].pc = "idle"
       /\ clicks < limit
       /\ options # <<>>
       /\ IF player # pick_on(draft_df)
          THEN \* st.warning: it's not your turn
               /\ sess' = [sess EXCEPT ![TurnSession] = [IdleRun EXCEPT !.player = player]]
               /\ cache' = <<draft_df>>
               /\ UNCHANGED <<draft_ws, log, clicks>>
          ELSE /\ sess' = [sess EXCEPT ![TurnSession] =
                              [IdleRun EXCEPT !.player = player,
                                              !.song = normalized(options[1]),
                                              !.row_num = pick.row_num,
                                              !.col_num = pick.col_num,
                                              !.ret = pick.ret]]
               /\ draft_ws' = pick.ws
               /\ cache' = IF pick.ret = "true" THEN <<>> ELSE <<draft_df>>
               /\ log' = IF pick.ret = "true"
                         THEN Append(log, [session |-> TurnSession, player |-> player,
                                           song |-> normalized(options[1]),
                                           row_num |-> pick.row_num,
                                           col_num |-> pick.col_num])
                         ELSE log
               /\ clicks' = clicks + 1
       /\ UNCHANGED <<order, scores_ws, shows, out, songs, total_picks, turns>>

InitTurns ==
    /\ order \in {<<Ann, Bob>>, <<Bob, Ann>>, <<Ann, Bob, Cat>>}
    /\ draft_ws = EmptyBoard
    /\ cache = <<>>
    /\ sess = [s \in Sessions |-> IdleRun]
    /\ scores_ws = NoScoresWs
    /\ shows = <<>>
    /\ out = <<>>
    /\ songs = fetch_catalog(ManySongs)
    /\ log = <<>>
    /\ clicks = 0
    /\ total_picks = 0
    /\ turns = <<>>

NextTurns ==
    \/ \E player \in Range(order) : DraftClick(player, TurnClicks)
    \/ CacheExpires

SpecTurns == InitTurns /\ [][NextTurns]_vars

(***************************************************************************)
(* The draft board: claims                                                 *)
(***************************************************************************)
\* the picks of the worksheet's row i (a player's row)
picks_of(ws, i) == Tail(trim_row(ws[i]))

PlayerRows == 2..Len(draft_ws)

\* a row holds one song in two of its cells (Spec reaches such boards: two runs
\* for the player on the clock overlap, the second with the frame it loaded before
\* the first one's write)
RowHoldsASongTwice ==
    \E i \in PlayerRows : \E a, b \in DOMAIN picks_of(draft_ws, i) :
        a # b /\ picks_of(draft_ws, i)[a] = picks_of(draft_ws, i)[b]

\* C1: no SongKey is held by two different players: after any interleaving of
\* write_pick calls from the empty board, the rows of two different players have
\* no pick in common.
C1_NoSongUnderTwoPlayers ==
    \A i, j \in PlayerRows :
        i # j => Range(picks_of(draft_ws, i)) \cap Range(picks_of(draft_ws, j)) = {}

\* C6: two write_pick calls never both succeed in claiming the same slot: the
\* calls that returned True wrote pairwise different cells, and each one's song
\* is in its cell.
C6_SuccessKeepsItsSlot ==
    /\ \A k, l \in DOMAIN log :
           k # l => <<log[k].row_num, log[k].col_num>> # <<log[l].row_num, log[l].col_num>>
    /\ \A k \in DOMAIN log : draft_ws[log[k].row_num][log[k].col_num] = log[k].song

\* C7: no row of the board holds more than the 12 picks of the header, and a
\* write_pick that found the 12 slots of its player filled has returned False.
C7_SlotCapacityKept ==
    /\ \A i \in PlayerRows : Len(picks_of(draft_ws, i)) <= LastPickColumn
    /\ \A s \in Sessions :
           sess[s].col_num > LastPickColumn + 1 =>
               sess[s].pc = "idle" /\ sess[s].ret = "false"

\* C7's case: both rows are full and a write_pick for a full row has returned
C7_Witness ==
    /\ \A i \in PlayerRows : Len(picks_of(draft_ws, i)) = LastPickColumn
    /\ \E s \in Sessions : sess[s].col_num = LastPickColumn + 2 /\ sess[s].ret = "false"

\* C12: a write_pick call that reports failure (the player has no row on the
\* board, or the row has no slot left) leaves the draft board exactly as it was
\* before the call
C12_FailureLeavesTheBoard ==
    [][(clicks' = clicks + 1 /\ sess'[TurnSession].ret = "false")
           => draft_ws' = draft_ws]_vars

\* C12's case: the board is full and a call for a full row has reported failure
C12_Witness ==
    /\ \A i \in PlayerRows : Len(picks_of(draft_ws, i)) = LastPickColumn
    /\ sess[TurnSession].ret = "false"
    /\ sess[TurnSession].col_num = LastPickColumn + 2
    /\ clicks > FullBoardPicks

\* the picks in the row of player p, 0 when p has no row
picks_held(p) ==
    IF ws_find(draft_ws, p) = 0 THEN 0 ELSE Len(picks_of(draft_ws, ws_find(draft_ws, p)))

\* C17: with the users drafting one at a time, a pick is written only for the
\* player next_pick_player names for the picks on the board: the k-th written
\* pick is the k-th successful one and belongs to next_pick_player(order, k - 1),
\* and the pick counts of two players of the order never differ by more than 1
C17_PicksFollowTheSnake ==
    /\ SumSeq([i \in 1..(Len(draft_ws) - 1) |-> Len(picks_of(draft_ws, i + 1))]) = Len(log)
    /\ \A k \in DOMAIN log : log[k].player = next_pick_player(order, k - 1)[1]
    /\ \A p, q \in Range(order) : picks_held(p) - picks_held(q) <= 1

\* C17's case: two rounds were drafted, the second in reverse, and the last
\* click was out of turn
C17_Witness ==
    /\ Len(order) = 2
    /\ Len(log) = 2 * Len(order)
    /\ log[2].player = log[3].player
    /\ sess[TurnSession].player # <<>>
    /\ sess[TurnSession].ret = "none"

\* every player of the draft order has a row on the board
AllHaveRows == \A p \in Range(order) : ws_find(draft_ws, p) # 0

\* every player holds exactly 12 picks
BoardFull == \A i \in PlayerRows : Len(picks_of(draft_ws, i)) = LastPickColumn

\* no script run is under way, and the next one loads the board as it is
Quiet ==
    /\ \A s \in Sessions : sess[s].pc = "idle"
    /\ cache = <<>> \/ cache[1] = read_draft_df(draft_ws)

\* the player on the clock for the board as it is
OnTheClock == pick_on(read_draft_df(draft_ws))

\* C18: when every player of the order has a row, the draft goes on to the state
\* where every player holds 12 picks, and stays there.  As properties of finite
\* runs: while the board is not full, the player on the clock has a slot left
\* (the pick that player submits is written, and only written picks bring the
\* draft nearer its end); and once the board is full, no pick attempt succeeds
\* and the board does not change
C18_DraftRunsToTheFullBoard ==
    /\ []((AllHaveRows /\ Quiet /\ ~BoardFull) => picks_held(OnTheClock) < LastPickColumn)
    /\ [][BoardFull => (draft_ws' = draft_ws /\ log' = log)]_vars

(***************************************************************************)
(* The draft order study: next_pick_player called for total_picks = 0, 1,  *)
(* 2, ... on every order of at most MaxPlayers names                       *)
(***************************************************************************)
MaxPlayers == 3

Dan == <<"D", "a", "n">>

Names == {Ann, Bob, Cat, Dan}

\* the orders the "Draft Order" worksheet can hold: any names, repeated or not
Orders == UNION {[1..n -> Names] : n \in 0..MaxPlayers}

InitOrder ==
    /\ order \in Orders
    /\ draft_ws = EmptyBoard
    /\ cache = <<>>
    /\ sess = [s \in Sessions |-> IdleRun]
    /\ scores_ws = NoScoresWs
    /\ shows = <<>>
    /\ out = <<>>
    /\ songs = <<>>
    /\ log = <<>>
    /\ clicks = 0
    /\ total_picks = 0
    /\ turns = <<>>

\* one call: next_pick_player(order, total_picks); three rounds are called
NextPickCall ==
    /\ total_picks < 3 * Len(order) \/ (order = <<>> /\ total_picks = 0)
    /\ turns' = Append(turns, next_pick_player(order, total_picks))
    /\ total_picks' = total_picks + 1
    /\ UNCHANGED <<order, draft_ws, cache, sess, scores_ws, shows, out, songs, log, clicks>>

NextOrder == NextPickCall

SpecOrder == InitOrder /\ [][NextOrder]_vars

NoDuplicates(seq) == \A i, j \in DOMAIN seq : i # j => seq[i] # seq[j]

\* C3: for a non-empty order of n different players, the call with picksSoFar = k
\* returns pick number k + 1; over the calls 0..2n-1 every player is returned
\* exactly twice, and pick n+k goes to the player of pick n+1-k.
C3_SnakeOrder ==
    LET n == Len(order)
    IN (n > 0 /\ NoDuplicates(order)) =>
           /\ \A k \in DOMAIN turns : turns[k][2] = k
           /\ Len(turns) >= 2 * n =>
                  \A p \in Range(order) :
                      Cardinality({k \in 1..2 * n : turns[k][1] = p}) = 2
           /\ \A k \in 1..n : n + k <= Len(turns) => turns[n + k][1] = turns[n + 1 - k][1]

\* C3's case: two whole rounds of an order of several different players were called
C3_Witness ==
    /\ Len(order) >= 2
    /\ NoDuplicates(order)
    /\ Len(turns) = 2 * Len(order)

(***************************************************************************)
(* The score tab                                                           *)
(***************************************************************************)
\* show_date.strftime("%Y-%m-%d") of the date <<year, month, day>>
strftime(date) ==
    zero_pad(str_int(date[1]), 4) \o <<"-">> \o zero_pad(str_int(date[2]), 2)
        \o <<"-">> \o zero_pad(str_int(date[3]), 2)

\* ["Show Date", "Player", "Points"]
ScoresHeader ==
    << <<"S","h","o","w"," ","D","a","t","e">>, <<"P","l","a","y","e","r">>,
       <<"P","o","i","n","t","s">> >>

RECURSIVE dict_keys(_, _)
\* the keys of {p: 0 for p in draft_board["Player"]} in insertion order
dict_keys(draft_board, seen) ==
    IF draft_board = <<>> THEN <<>>
    ELSE LET p == Head(draft_board)[1]
         IN IF p \in seen THEN dict_keys(Tail(draft_board), seen)
            ELSE <<p>> \o dict_keys(Tail(draft_board), seen \cup {p})

\* append_scores(date, scores); keys is the order scores.items() yields
append_scores(ws, date, scores, keys) ==
    LET found       == IF ws.exists THEN ws ELSE [exists |-> TRUE, rows |-> <<ScoresHeader>>]
        rows_to_add == [i \in DOMAIN keys |-> <<date, keys[i], scores[keys[i]]>>]
    IN IF keys # <<>> THEN [found EXCEPT !.rows = @ \o rows_to_add] ELSE found

(***************************************************************************)
(* The standings tab                                                       *)
(***************************************************************************)
\* datetime.date(2025, 6, 19)
TOUR_START_DATE == <<2025, 6, 19>>

RECURSIVE int_of(_)
\* the number a string of digits stands for
int_of(s) ==
    IF s = <<>> THEN 0
    ELSE 10 * int_of(SubSeq(s, 1, Len(s) - 1))
             + (CHOOSE n \in 0..9 : DigitChars[n + 1] = s[Len(s)])

\* pd.to_datetime(s).dt.date of a "YYYY-MM-DD" cell: <<year, month, day>>
to_date(s) ==
    LET y    == split_first(s, <<"-">>)
        rest == SubSeq(s, Len(y) + 2, Len(s))
        m    == split_first(rest, <<"-">>)
        d    == SubSeq(rest, Len(m) + 2, Len(rest))
    IN <<int_of(y), int_of(m), int_of(d)>>

\* a >= b on datetime.date
date_ge(a, b) ==
    \/ a[1] > b[1]
    \/ a[1] = b[1] /\ a[2] > b[2]
    \/ a[1] = b[1] /\ a[2] = b[2] /\ a[3] >= b[3]

\* scores_ws.get_all_records(): one record per row under the header row, here
\* <<Show Date, Player, Points>>
get_all_records(ws) == Tail(ws.rows)

RECURSIVE sorted_keys(_)
\* the group keys of groupby('Player'): the players, sorted
sorted_keys(players) ==
    IF players = {} THEN <<>>
    ELSE LET first == CHOOSE p \in players : \A q \in players \ {p} : str_less(p, q)
         IN <<first>> \o sorted_keys(players \ {first})

\* tour_scores_df.groupby('Player')['Points'].sum(): <<player, points>> per player
groupby_sum(rows) ==
    LET keys == sorted_keys({rows[i][2] : i \in DOMAIN rows})
    IN [k \in DOMAIN keys |->
           <<keys[k], SumSeq([i \in DOMAIN rows |->
                                 IF rows[i][2] = keys[k] THEN rows[i][3] ELSE 0])>>]

RECURSIVE insert_descending(_, _)
insert_descending(sorted, x) ==
    IF sorted = <<>> THEN <<x>>
    ELSE IF x[2] > Head(sorted)[2] THEN <<x>> \o sorted
    ELSE <<Head(sorted)>> \o insert_descending(Tail(sorted), x)

RECURSIVE sort_descending(_)
\* Series.sort_values(ascending=False): pandas reverses, sorts and reverses back,
\* and numpy sorts the 16 or fewer totals of a league by insertion, so equal
\* totals keep the order groupby gave them
sort_descending(series) ==
    IF series = <<>> THEN <<>>
    ELSE insert_descending(sort_descending(SubSeq(series, 1, Len(series) - 1)),
                           series[Len(series)])

\* what the standings tab shows instead of a table: an st.info message
NoStandings == <<>>

\* the standings tab: the rows <<Player, Points>> of the table it displays
standings(ws) ==
    IF ~ws.exists THEN NoStandings
    ELSE LET records == get_all_records(ws)
         IN IF records = <<>> \/ Len(records) <= 1 THEN NoStandings
            ELSE LET scores_df      == Tail(records)
                     tour_scores_df == SelectSeq(scores_df,
                                           LAMBDA r : date_ge(to_date(r[1]), TOUR_START_DATE))
                 IN IF tour_scores_df = <<>> THEN NoStandings
                    ELSE sort_descending(groupby_sum(tour_scores_df))

NoPayload == [kind |-> "other", tracks |-> <<>>]

\* what requests.get gives for the date: a RequestException, or the payload
response_for(date_str, error) ==
    IF error THEN [error |-> TRUE, payload |-> NoPayload]
    ELSE [error |-> FALSE, payload |-> shows[date_str]]

\* "Calculate Scores" pressed: the script run loads the draft board, scores the
\* show, appends the totals if there are any and renders the standings tab
CalculateScores(date, error, limit) ==
    LET date_str == strftime(date)
        response == response_for(date_str, error)
        result   == score_show(response, get_draft_df)
    IN /\ clicks < limit
       /\ clicks' = clicks + 1
       /\ cache' = <<get_draft_df>>
       /\ scores_ws' = IF result.totals # EmptyDict
                       THEN append_scores(scores_ws, date_str, result.totals,
                                          dict_keys(get_draft_df, {}))
                       ELSE scores_ws
       /\ out' = <<[date |-> date_str, response |-> response,
                    breakdown |-> result.breakdown, totals |-> result.totals,
                    standings |-> standings(scores_ws')]>>
       /\ UNCHANGED <<order, draft_ws, sess, shows, songs, log, total_picks, turns>>

(***************************************************************************)
(* The scoring study: one show scored against a board of the draft         *)
(***************************************************************************)
MaxTracks == 2

Fee == <<"F", "e", "e">>
FeeSpaced == <<" ", "f", "e", "e">>
YEM == <<"Y", "E", "M">>

fee == <<"f", "e", "e">>
you_enjoy_myself == ALIAS_MAP[<<"y", "e", "m">>]

NoTags == <<>>
TeaseFee == [name |-> <<"T","e","a","s","e">>, notes |-> <<"F","e","e"," ","b","y"," ","P">>]
TeaseYem == [name |-> <<"t","e","a","s","e">>, notes |-> <<" ","y","e","m">>]
TeaseNoNote == [name |-> <<"t","e","a","s","e">>, notes |-> <<>>]
Bustout == [name |-> <<"B","u","s","t","o","u","t">>, notes |-> <<"g","a","p">>]

\* 5, 19.6, 22 and 29.5 minutes
Durations == {300000, 1176000, 1320000, 1770000}

Tracks ==
    {[title |-> Fee, duration |-> d, tags |-> NoTags] : d \in Durations}
    \cup {[title |-> FeeSpaced, duration |-> 300000, tags |-> NoTags]}
    \cup {[title |-> YEM, duration |-> 300000, tags |-> t] :
             t \in {NoTags, <<TeaseFee>>, <<TeaseFee, TeaseFee>>}}
    \cup {[title |-> Fee, duration |-> 1320000, tags |-> t] :
             t \in {<<TeaseYem, TeaseNoNote>>, <<Bustout>>}}

Setlists == UNION {[1..n -> Tracks] : n \in 0..MaxTracks}

\* the payloads of Phish.in: no JSON object, or an object with its tracks
Payloads == {NoPayload} \cup {[kind |-> "dict", tracks |-> t] : t \in Setlists}

\* a show of the tour and a date before it
ShowDate == <<2025, 6, 20>>
EarlyDate == <<2025, 6, 10>>
Dates == {ShowDate, EarlyDate}

\* rows the draft can leave a player with: write_pick writes normalized songs, and
\* it writes a song a second time into a row when two runs of one player overlap
\* (RowHoldsASongTwice)
AnnPicks == {<<>>, <<fee>>, <<fee, fee>>, <<you_enjoy_myself, fee>>}
BobPicks == {<<>>, <<you_enjoy_myself>>}

board_of(ann, bob) == <<HEADER_ROW, <<Ann>> \o ann, <<Bob>> \o bob>>

InitScore ==
    /\ order = <<Ann, Bob>>
    /\ \E a \in AnnPicks, b \in BobPicks : draft_ws = board_of(a, b)
    /\ cache = <<>>
    /\ sess = [s \in Sessions |-> IdleRun]
    /\ scores_ws = NoScoresWs
    /\ \E p \in Payloads : shows = (strftime(ShowDate) :> p @@ strftime(EarlyDate) :> NoPayload)
    /\ out = <<>>
    /\ songs = <<>>
    /\ log = <<>>
    /\ clicks = 0
    /\ total_picks = 0
    /\ turns = <<>>

NextScore == \E date \in Dates, error \in BOOLEAN : CalculateScores(date, error, 1)

SpecScore == InitScore /\ [][NextScore]_vars

(***************************************************************************)
(* The scoring study: claims                                               *)
(***************************************************************************)
\* a show was scored: the last click got a payload with tracks
Scored == out # <<>> /\ ~out[1].response.error /\ ~no_setlist(out[1].response.payload)

ScoredTracks == out[1].response.payload.tracks

\* the Play or Reprise event of track i: the first event the loop adds for it
track_event(tracks, i) ==
    point_events_of(SubSeq(tracks, 1, i))[Len(point_events_of(SubSeq(tracks, 1, i - 1))) + 1]

\* track i is the first occurrence of its song in the show
first_play(tracks, i) == \A j \in 1..(i - 1) : played_key(tracks[j]) # played_key(tracks[i])

\* the earlier occurrences of track i's song after the first: the reprises before it
reprises_before(tracks, i) ==
    Cardinality({j \in 1..(i - 1) :
        played_key(tracks[j]) = played_key(tracks[i]) /\ ~first_play(tracks, j)})

\* the rows of the scored board, by player: the picks a player holds
BoardRows == read_draft_df(draft_ws)

\* C4: the first occurrence of a song is worth 4 points, plus 2 exactly when
\* 20 <= d/60000 < 30 and plus 3 exactly when d/60000 >= 30, tested on the
\* precise minutes d/60000 (i.e. on d against 20 and 30 times 60000)
C4_BracketsOnPreciseMinutes ==
    Scored =>
        \A i \in DOMAIN ScoredTracks :
            first_play(ScoredTracks, i) =>
                LET d == ScoredTracks[i].duration
                IN track_event(ScoredTracks, i).points =
                       4 + (IF 20 * MsPerMinute <= d /\ d < 30 * MsPerMinute THEN 2
                            ELSE IF d >= 30 * MsPerMinute THEN 3 ELSE 0)

\* the points of player row r on the breakdown lines of the Play and Reprise
\* events of the song k
credited(r, k) ==
    LET lines == out[1].breakdown[BoardRows[r][1]]
    IN SumSeq([i \in DOMAIN ScoredTracks |->
                  IF played_key(ScoredTracks[i]) = k
                  THEN dict_get(lines, track_event(ScoredTracks, i).label, 0)
                  ELSE 0])

\* the points of the Play and Reprise events of the song k
play_and_reprises(k) ==
    SumSeq([i \in DOMAIN ScoredTracks |->
               IF played_key(ScoredTracks[i]) = k
               THEN track_event(ScoredTracks, i).points ELSE 0])

\* C5: every occurrence of a song after its first is a Reprise event of 2 points
\* whatever its duration, labelled "{title} (Reprise #{n})" with n counting the
\* song's reprises from 1, and a player who drafted the song is credited the sum
\* of its Play and Reprise events
C5_ReprisesAndTheirCredit ==
    Scored =>
        /\ \A i \in DOMAIN ScoredTracks :
               ~first_play(ScoredTracks, i) =>
                   /\ track_event(ScoredTracks, i).points = 2
                   /\ track_event(ScoredTracks, i).key = normalized(ScoredTracks[i].title)
                   /\ track_event(ScoredTracks, i).label =
                          reprise_label(ScoredTracks[i], reprises_before(ScoredTracks, i) + 1)
        /\ \A r \in DOMAIN BoardRows :
               \A k \in Range(Tail(BoardRows[r])) \ {EmptyCell} :
                   credited(r, k) = play_and_reprises(k)

\* the tease tags of a track, as the claim reads them
claimed_teases(track) ==
    SelectSeq(track.tags, LAMBDA tag : lower(tag.name) = TEASE /\ tag.notes # <<>>)

\* the SongKey of the title a tease note names: the text before " by "
claimed_tease_key(tag) == normalized(split_first(tag.notes, BY_SEP))

\* the events the loop adds for track i after its Play or Reprise event
events_after_play(tracks, i) ==
    SubSeq(point_events_of(SubSeq(tracks, 1, i)),
           Len(point_events_of(SubSeq(tracks, 1, i - 1))) + 2,
           Len(point_events_of(SubSeq(tracks, 1, i))))

\* C8: every tag named "tease" (in any case) with a note yields a Tease event of
\* 1 point for the SongKey of the teased title, in the order of the tags, and a
\* player who drafted the teased song has that event on the breakdown, whether
\* or not the teased song is a track of the show
C8_TeasesScoreForTheTeasedSong ==
    Scored =>
        \A i \in DOMAIN ScoredTracks :
            LET teases == claimed_teases(ScoredTracks[i])
                events == events_after_play(ScoredTracks, i)
            IN /\ Len(events) = Len(teases)
               /\ \A t \in DOMAIN teases :
                      /\ events[t].points = 1
                      /\ events[t].key = claimed_tease_key(teases[t])
                      /\ \A r \in DOMAIN BoardRows :
                             events[t].key \in Range(Tail(BoardRows[r])) =>
                                 /\ events[t].label \in DOMAIN out[1].breakdown[BoardRows[r][1]]
                                 /\ out[1].totals[BoardRows[r][1]] >= 1

\* C8's case: a song that is no track of the show is teased, and its drafter scores
C8_Witness ==
    /\ Scored
    /\ \E i \in DOMAIN ScoredTracks : \E r \in DOMAIN BoardRows :
           LET teases == claimed_teases(ScoredTracks[i])
           IN /\ teases # <<>>
              /\ claimed_tease_key(teases[1]) \in Range(Tail(BoardRows[r]))
              /\ \A j \in DOMAIN ScoredTracks :
                     played_key(ScoredTracks[j]) # claimed_tease_key(teases[1])
              /\ out[1].totals[BoardRows[r][1]] = Len(teases)

BUSTOUT == <<"b", "u", "s", "t", "o", "u", "t">>

has_bustout(track) == \E t \in DOMAIN track.tags : lower(track.tags[t].name) = BUSTOUT

\* C9: a track with a "bustout" annotation has 10 points added to its own Play
\* or Reprise event, so that a bustout song played once is worth at least 14
C9_BustoutAddsTen ==
    Scored =>
        \A i \in DOMAIN ScoredTracks :
            has_bustout(ScoredTracks[i]) =>
                track_event(ScoredTracks, i).points =
                    10 + (IF first_play(ScoredTracks, i)
                          THEN play_points(ScoredTracks[i]) ELSE 2)

\* C16: the scoring events of one show carry pairwise distinct labels, so that no
\* two events share a line of a breakdown
C16_LabelsAreDistinct ==
    Scored =>
        LET events == point_events_of(ScoredTracks)
        IN \A i, j \in DOMAIN events : i # j => events[i].label # events[j].label

RECURSIVE sum_values(_)
\* the sum of the values of a dict
sum_values(d) ==
    IF DOMAIN d = {} THEN 0
    ELSE LET k == CHOOSE x \in DOMAIN d : TRUE
         IN d[k] + sum_values([x \in DOMAIN d \ {k} |-> d[x]])

\* C19: for a show with a setlist, exactly the players with a row on the board
\* have an entry in totals, each entry is the sum of the points on the player's
\* breakdown, and it is 0 for a player none of whose picks matched
C19_TotalsSumTheBreakdown ==
    Scored =>
        /\ DOMAIN out[1].totals = {BoardRows[r][1] : r \in DOMAIN BoardRows}
        /\ DOMAIN out[1].breakdown = DOMAIN out[1].totals
        /\ \A p \in DOMAIN out[1].totals :
               /\ out[1].totals[p] = sum_values(out[1].breakdown[p])
               /\ out[1].breakdown[p] = EmptyDict => out[1].totals[p] = 0

\* C19's case: one player scored on a line that two events share, the other has
\* no line and a total of 0
C19_Witness ==
    /\ Scored
    /\ \E p, q \in DOMAIN out[1].totals :
           /\ out[1].breakdown[q] = EmptyDict
           /\ out[1].totals[q] = 0
           /\ out[1].totals[p] > 0
           /\ \E i, j \in DOMAIN point_events_of(ScoredTracks) :
                  /\ i # j
                  /\ point_events_of(ScoredTracks)[i].label = point_events_of(ScoredTracks)[j].label
                  /\ point_events_of(ScoredTracks)[i].label \in DOMAIN out[1].breakdown[p]

(***************************************************************************)
(* The ledger study: Calculate Scores pressed several times                *)
(***************************************************************************)
MaxShows == 2

FeeJam == [title |-> Fee, duration |-> 1320000, tags |-> NoTags]

\* what Phish.in may hold for a date: nothing, an object without tracks, a show
LedgerPayloads ==
    {NoPayload, [kind |-> "dict", tracks |-> <<>>], [kind |-> "dict", tracks |-> <<FeeJam>>]}

InitLedger ==
    /\ order = <<Ann, Bob>>
    /\ \E a \in AnnPicks, b \in BobPicks : draft_ws = board_of(a, b)
    /\ cache = <<>>
    /\ sess = [s \in Sessions |-> IdleRun]
    /\ scores_ws = NoScoresWs
    /\ \E p, q \in LedgerPayloads :
           shows = (strftime(ShowDate) :> p @@ strftime(EarlyDate) :> q)
    /\ out = <<>>
    /\ songs = <<>>
    /\ log = <<>>
    /\ clicks = 0
    /\ total_picks = 0
    /\ turns = <<>>

NextLedger == \E date \in Dates, error \in BOOLEAN : CalculateScores(date, error, MaxShows)

SpecLedger == InitLedger /\ [][NextLedger]_vars

\* the ledger's entries: the rows under the header
LedgerEntries == IF scores_ws.exists THEN Tail(scores_ws.rows) ELSE <<>>

\* C2: recording a show is idempotent per (ShowDate, Player): however often
\* Calculate Scores is pressed for a date, the ledger holds at most one entry for
\* a date and a player
C2_OneEntryPerShowAndPlayer ==
    \A i, j \in DOMAIN LedgerEntries :
        (LedgerEntries[i][1] = LedgerEntries[j][1] /\ LedgerEntries[i][2] = LedgerEntries[j][2])
            => i = j

\* C10: a Calculate Scores click whose payload is absent or has no tracks gets the
\* empty result, with no total for any player, and leaves the ledger as it was
C10_NoSetlistNoEntry ==
    [][(clicks' = clicks + 1 /\ ~out'[1].response.error
            /\ no_setlist(out'[1].response.payload))
        => (/\ out'[1].totals = EmptyDict
            /\ out'[1].breakdown = EmptyDict
            /\ scores_ws' = scores_ws)]_vars

\* C10's case: a show is in the ledger and the last click found no setlist
C10_Witness ==
    /\ LedgerEntries # <<>>
    /\ out # <<>>
    /\ ~out[1].response.error
    /\ no_setlist(out[1].response.payload)
    /\ out[1].totals = EmptyDict

\* what score_show returned to the click that filled out
Returned(o) == [breakdown |-> o[1].breakdown, totals |-> o[1].totals]

\* C11: what score_show returns for an upstream failure (a RequestException) is
\* never what it returns for a show without setlist data: of two clicks following
\* each other on one board, one failing upstream and one finding no setlist, the
\* returned values differ
C11_FailureIsNotNoSetlist ==
    [][(/\ out # <<>>
        /\ clicks' = clicks + 1
        /\ out[1].response.error # out'[1].response.error
        /\ \A o \in {out, out'} : ~o[1].response.error => no_setlist(o[1].response.payload))
        => Returned(out') # Returned(out)]_vars

(***************************************************************************)
(* The standings study: shows of three dates scored, on boards whose rows   *)
(* the owner entered in one order or another                               *)
(***************************************************************************)
YemShow == [title |-> YEM, duration |-> 300000, tags |-> NoTags]

\* what Phish.in may hold for a date: nothing, a show with "Fee", a show without
StandingsPayloads ==
    {NoPayload, [kind |-> "dict", tracks |-> <<FeeJam>>], [kind |-> "dict", tracks |-> <<YemShow>>]}

\* a date before the tour, its first day and a later show
StandingsDates == {EarlyDate, TOUR_START_DATE, ShowDate}

StandingsBoards ==
    { board_of(<<fee>>, <<you_enjoy_myself>>),
      <<HEADER_ROW, <<Bob>>, <<Ann, fee>>, <<Dan>>>> }

InitStandings ==
    /\ order = <<Ann, Bob>>
    /\ draft_ws \in StandingsBoards
    /\ cache = <<>>
    /\ sess = [s \in Sessions |-> IdleRun]
    /\ scores_ws = NoScoresWs
    /\ \E p, q, r \in StandingsPayloads :
           shows = (strftime(EarlyDate) :> p @@ strftime(TOUR_START_DATE) :> q
                       @@ strftime(ShowDate) :> r)
    /\ out = <<>>
    /\ songs = <<>>
    /\ log = <<>>
    /\ clicks = 0
    /\ total_picks = 0
    /\ turns = <<>>

NextStandings ==
    \E date \in StandingsDates, error \in BOOLEAN : CalculateScores(date, error, MaxShows)

SpecStandings == InitStandings /\ [][NextStandings]_vars

\* the ledger entries dated on or after the season start
SeasonEntries ==
    SelectSeq(LedgerEntries, LAMBDA e : date_ge(to_date(e[1]), TOUR_START_DATE))

\* the sum of Points over the season entries of player p
SeasonPoints(p) ==
    SumSeq([i \in DOMAIN SeasonEntries |->
               IF SeasonEntries[i][2] = p THEN SeasonEntries[i][3] ELSE 0])

\* C13: the standings give each player of the ledger's entries on or after the
\* season start one row, whose TotalPoints is the sum of Points over all those
\* entries of the player (each counted once, the entries before the season start
\* left out), and no row to anyone else
C13_StandingsSumTheSeason ==
    out # <<>> =>
        LET rows == out[1].standings
        IN /\ \A i \in DOMAIN SeasonEntries :
                  \E k \in DOMAIN rows :
                      /\ rows[k][1] = SeasonEntries[i][2]
                      /\ rows[k][2] = SeasonPoints(SeasonEntries[i][2])
           /\ \A k \in DOMAIN rows :
                  \E i \in DOMAIN SeasonEntries : SeasonEntries[i][2] = rows[k][1]
           /\ \A k, l \in DOMAIN rows : rows[k][1] = rows[l][1] => k = l

\* the index of the first ledger entry of player p
first_seen(p) ==
    CHOOSE i \in DOMAIN LedgerEntries :
        /\ LedgerEntries[i][2] = p
        /\ \A j \in 1..(i - 1) : LedgerEntries[j][2] # p

\* C14: the rows of the standings are in descending order of TotalPoints, and
\* of two players with equal TotalPoints the one first seen in the ledger is
\* the upper
C14_DescendingFirstSeenFirst ==
    out # <<>> =>
        LET rows == out[1].standings
        IN \A k, l \in DOMAIN rows :
               k < l =>
                   \/ rows[k][2] > rows[l][2]
                   \/ /\ rows[k][2] = rows[l][2]
                      /\ first_seen(rows[k][1]) < first_seen(rows[l][1])

(***************************************************************************)
(* The song key study: one pick cell, one track, titles that differ by     *)
(* case, surrounding whitespace or alias                                   *)
(***************************************************************************)
YemSpaced == <<" ", "y", "e", "m", " ">>
YouEnjoyMyself == <<"Y","o","u"," ","E","n","j","o","y"," ","M","y","s","e","l","f">>

KeyTitles == {Fee, FeeSpaced, YEM, YemSpaced, YouEnjoyMyself}

\* what a pick cell of the "Draft" worksheet can hold: what write_pick wrote for
\* a title, or a title as the owner of the sheet, who enters the players' rows,
\* typed it (score_show lowers and aliases the cells it reads, line 313)
PickCells == {normalized(t) : t \in KeyTitles} \cup KeyTitles

tease_of(title) == [name |-> <<"T","e","a","s","e">>, notes |-> title \o <<" ","b","y"," ","P">>]

KeyTracks ==
    {[title |-> t, duration |-> 300000, tags |-> tags] :
        t \in KeyTitles, tags \in {NoTags} \cup {<<tease_of(u)>> : u \in KeyTitles}}

InitKeys ==
    /\ order = <<Ann, Bob>>
    /\ \E cell \in PickCells : draft_ws = board_of(<<cell>>, <<>>)
    /\ cache = <<>>
    /\ sess = [s \in Sessions |-> IdleRun]
    /\ scores_ws = NoScoresWs
    /\ \E track \in KeyTracks :
           shows = (strftime(ShowDate) :> [kind |-> "dict", tracks |-> <<track>>])
    /\ out = <<>>
    /\ songs = <<>>
    /\ log = <<>>
    /\ clicks = 0
    /\ total_picks = 0
    /\ turns = <<>>

NextKeys == \E error \in BOOLEAN : CalculateScores(ShowDate, error, 1)

SpecKeys == InitKeys /\ [][NextKeys]_vars

\* C15: normalizing a title (trim, lowercase, alias lookup) twice gives what
\* normalizing it once gives; the key of a played track and of a teased title is
\* the normalized title; and a pick cell whose title normalizes to the key of an
\* event of the show has that event on its player's breakdown
C15_OneNormalizationEverywhere ==
    Scored =>
        /\ \A t \in KeyTitles \cup PickCells : normalized(normalized(t)) = normalized(t)
        /\ \A i \in DOMAIN ScoredTracks :
               /\ track_event(ScoredTracks, i).key = normalized(ScoredTracks[i].title)
               /\ \A t \in DOMAIN events_after_play(ScoredTracks, i) :
                      events_after_play(ScoredTracks, i)[t].key
                          = claimed_tease_key(claimed_teases(ScoredTracks[i])[t])
        /\ \A r \in DOMAIN BoardRows : \A c \in 2..Len(BoardRows[r]) :
               \A e \in Range(point_events_of(ScoredTracks)) :
                   (strip(BoardRows[r][c]) # <<>> /\ normalized(BoardRows[r][c]) = e.key)
                       => e.label \in DOMAIN out[1].breakdown[BoardRows[r][1]]

====
